---- MODULE Spec2Model ----
(***************************************************************************)
(* Validation and secure-materialization core of vibing-cli.               *)
(*                                                                         *)
(* The module models one CLI process: the module-level defaultResult       *)
(* object of utils/validation.ts with the two arrays it owns, the four     *)
(* validators, the aggregation done by the validate and publish commands,  *)
(* the recursive file walker the accessibility scan uses and the template  *)
(* copy of the init command, all over an explicit file system with         *)
(* directories, files and symbolic links.                                  *)
(*                                                                         *)
(* JavaScript values are modelled as follows.  An object is a record; an   *)
(* optional property that is absent is a field that is not in the record's *)
(* DOMAIN.  A string that the code matches against a pattern is a sequence *)
(* of one-character strings; other strings are TLA+ strings.  An array     *)
(* that is shared by reference is a cell of the heap, and an object that   *)
(* refers to it holds the name of the cell.  Diagnostic messages are       *)
(* functions of the code and the path and are left out.                    *)
(***************************************************************************)
EXTENDS Integers, Sequences, FiniteSets, TLC

(***************************************************************************)
(* Bounds of the model.                                                    *)
(***************************************************************************)
\* number of validator calls and command runs made by one process
MaxCalls == 2
\* number of symbolic links the kernel follows while resolving one path
\* before it fails with ELOOP (40 on Linux)
SymloopMax == 3

\* The element of a one-element set.  The({e(x) : x \in {v}}) is e(v) with
\* v computed once, which is how the module names an intermediate value that
\* is used several times.
The(S) == CHOOSE x \in S : TRUE

(***************************************************************************)
(* Characters and strings.                                                 *)
(***************************************************************************)
Lower == {"a","b","c","d","e","f","g","h","i","j","k","l","m",
          "n","o","p","q","r","s","t","u","v","w","x","y","z"}
Upper == {"A","B","C","D","E","F","G","H","I","J","K","L","M",
          "N","O","P","Q","R","S","T","U","V","W","X","Y","Z"}
Digit == {"0","1","2","3","4","5","6","7","8","9"}

\* String.prototype.split on a one-character separator
RECURSIVE Split(_, _)
Split(s, sep) ==
  IF \A i \in 1..Len(s) : s[i] # sep THEN <<s>>
  ELSE LET k == CHOOSE i \in 1..Len(s) :
                  s[i] = sep /\ \A j \in 1..(i - 1) : s[j] # sep
       IN <<SubSeq(s, 1, k - 1)>> \o Split(SubSeq(s, k + 1, Len(s)), sep)

\* String.prototype.includes
Includes(s, t) ==
  \E i \in 1..(Len(s) - Len(t) + 1) : SubSeq(s, i, i + Len(t) - 1) = t

\* /^[a-z][a-z0-9_]{0,63}(\.[a-z0-9_]{1,63}){1,10}$/i
\* No class of the pattern contains the dot, so a string matches exactly
\* when its dot-separated segments do.
IdChar(c) == c \in Lower \cup Upper \cup Digit \cup {"_"}

\* the pattern with {0,10} in place of {1,10}: the dotted part is optional
IdPatternOptionalDomain(s) ==
  \E segs \in {Split(s, ".")} :
    /\ Len(segs) <= 11
    /\ Len(segs[1]) >= 1
    /\ Len(segs[1]) <= 64
    /\ segs[1][1] \in Lower \cup Upper
    /\ \A i \in 2..Len(segs[1]) : IdChar(segs[1][i])
    /\ \A k \in 2..Len(segs) :
         /\ Len(segs[k]) >= 1
         /\ Len(segs[k]) <= 63
         /\ \A i \in 1..Len(segs[k]) : IdChar(segs[k][i])

IdPattern(s) ==
  \E segs \in {Split(s, ".")} :
    /\ Len(segs) >= 2
    /\ Len(segs) <= 11
    /\ Len(segs[1]) >= 1
    /\ Len(segs[1]) <= 64
    /\ segs[1][1] \in Lower \cup Upper
    /\ \A i \in 2..Len(segs[1]) : IdChar(segs[1][i])
    /\ \A k \in 2..Len(segs) :
         /\ Len(segs[k]) >= 1
         /\ Len(segs[k]) <= 63
         /\ \A i \in 1..Len(segs[k]) : IdChar(segs[k][i])

\* /^\d+\.\d+\.\d+$/
VersionPattern(s) ==
  \E segs \in {Split(s, ".")} :
    /\ Len(segs) = 3
    /\ \A k \in 1..3 :
         /\ Len(segs[k]) >= 1
         /\ \A i \in 1..Len(segs[k]) : segs[k][i] \in Digit

(***************************************************************************)
(* Objects, optional properties and the heap.                              *)
(***************************************************************************)
Has(obj, field) == field \in DOMAIN obj

\* JavaScript truthiness of a property that holds a string: absent
\* (undefined) and the empty string are falsy.
CharSeqFields == {"id", "version"}
Truthy(obj, field) ==
  /\ Has(obj, field)
  /\ IF field \in CharSeqFields THEN obj[field] # <<>> ELSE obj[field] # ""

\* The two array objects created by the literal of defaultResult.
ErrorsArray == "defaultResult.errors"
WarningsArray == "defaultResult.warnings"

\* const defaultResult = { valid: true, errors: [], warnings: [] }
defaultResult == [valid |-> TRUE, errors |-> ErrorsArray, warnings |-> WarningsArray]

\* { ...obj }: a new object with the own properties of obj; a property that
\* holds an array holds the same array afterwards.
Spread(obj) == [f \in DOMAIN obj |-> obj[f]]

\* array.push(d) on the array that ref names
Push(h, ref, d) == [h EXCEPT ![ref] = Append(@, d)]

(***************************************************************************)
(* validateManifest                                                        *)
(***************************************************************************)
\* the required-field checks with a return after the first error
validateRequiredFieldsFirstOnly(manifest, result, h) ==
  IF ~Truthy(manifest, "id")
    THEN Push(h, result.errors, [code |-> "manifest-missing-id"])
  ELSE IF ~IdPattern(manifest.id)
    THEN Push(h, result.errors, [code |-> "manifest-invalid-id"])
  ELSE IF ~Truthy(manifest, "name")
    THEN Push(h, result.errors, [code |-> "manifest-missing-name"])
  ELSE IF ~Truthy(manifest, "version")
    THEN Push(h, result.errors, [code |-> "manifest-missing-version"])
  ELSE IF ~VersionPattern(manifest.version)
    THEN Push(h, result.errors, [code |-> "manifest-invalid-version"])
  ELSE IF ~Has(manifest, "type")
    THEN Push(h, result.errors, [code |-> "manifest-missing-type"])
  ELSE IF manifest.type \notin {"app", "plugin", "agent"}
    THEN Push(h, result.errors, [code |-> "manifest-invalid-type"])
  ELSE h

validateRequiredFields(manifest, result, h) ==
  LET h1 == IF ~Truthy(manifest, "id")
              THEN Push(h, result.errors, [code |-> "manifest-missing-id"])
            ELSE IF ~IdPattern(manifest.id)
              THEN Push(h, result.errors, [code |-> "manifest-invalid-id"])
            ELSE h
      h2 == IF ~Truthy(manifest, "name")
              THEN Push(h1, result.errors, [code |-> "manifest-missing-name"])
            ELSE h1
      h3 == IF ~Truthy(manifest, "version")
              THEN Push(h2, result.errors, [code |-> "manifest-missing-version"])
            ELSE IF ~VersionPattern(manifest.version)
              THEN Push(h2, result.errors, [code |-> "manifest-invalid-version"])
            ELSE h2
      h4 == IF ~Has(manifest, "type")
              THEN Push(h3, result.errors, [code |-> "manifest-missing-type"])
            ELSE IF manifest.type \notin {"app", "plugin", "agent"}
              THEN Push(h3, result.errors, [code |-> "manifest-invalid-type"])
            ELSE h3
  IN h4

validateRecommendedFields(manifest, result, h) ==
  LET h1 == IF ~Truthy(manifest, "description")
              THEN Push(h, result.warnings, [code |-> "manifest-missing-description"])
            ELSE h
      h2 == IF ~Has(manifest, "author")
              THEN Push(h1, result.warnings, [code |-> "manifest-missing-author"])
            ELSE h1
  IN h2

\* validateManifest with a fix rule: with fix, a manifest without
\* description is given one
validateManifestFixing(manifest, fix, h) ==
  LET result == Spread(defaultResult)
      h1 == validateRequiredFields(manifest, result, h)
  IN The({[heap |-> h2,
           threw |-> FALSE,
           manifest |-> IF fix /\ ~Truthy(manifest, "description")
                          THEN [description |-> "A new project"] @@ manifest
                        ELSE manifest,
           result |-> [result EXCEPT !.valid = (Len(h2[result.errors]) = 0)]] :
          h2 \in {validateRecommendedFields(manifest, result, h1)}})

\* The outcome of a call: the heap it leaves, the manifest object as the
\* call leaves it (no statement assigns to it) and the object it returns.
validateManifest(manifest, fix, h) ==
  LET result == Spread(defaultResult)
      h1 == validateRequiredFields(manifest, result, h)
  IN The({[heap |-> h2,
           threw |-> FALSE,
           manifest |-> manifest,
           result |-> [result EXCEPT !.valid = (Len(h2[result.errors]) = 0)]] :
          h2 \in {validateRecommendedFields(manifest, result, h1)}})

(***************************************************************************)
(* validatePermissions                                                     *)
(***************************************************************************)
\* `permissions[${index}].<field>`
PermPath(index, field) == <<"permissions", ToString(index), field>>

\* the checks of one permission with the broad grant pushed on the errors
validateSinglePermissionRejecting(permission, index, result, h) ==
  LET h1 == IF ~Truthy(permission, "type")
              THEN Push(h, result.errors,
                        [code |-> "permission-missing-type",
                         path |-> PermPath(index, "type")])
            ELSE h
      isMemory == Has(permission, "type") /\ permission.type = "memory"
      h2 == IF isMemory /\ (~Has(permission, "access") \/ Len(permission.access) = 0)
              THEN Push(h1, result.errors,
                        [code |-> "permission-missing-access",
                         path |-> PermPath(index, "access")])
            ELSE h1
      h3 == IF /\ isMemory
               /\ Has(permission, "access")
               /\ \E i \in 1..Len(permission.access) : permission.access[i] = "write"
               /\ (~Truthy(permission, "scope") \/ permission.scope = "global")
              THEN Push(h2, result.errors,
                        [code |-> "permission-too-broad",
                         path |-> PermPath(index, "scope")])
            ELSE h2
  IN h3

validateSinglePermission(permission, index, result, h) ==
  LET h1 == IF ~Truthy(permission, "type")
              THEN Push(h, result.errors,
                        [code |-> "permission-missing-type",
                         path |-> PermPath(index, "type")])
            ELSE h
      isMemory == Has(permission, "type") /\ permission.type = "memory"
      h2 == IF isMemory /\ (~Has(permission, "access") \/ Len(permission.access) = 0)
              THEN Push(h1, result.errors,
                        [code |-> "permission-missing-access",
                         path |-> PermPath(index, "access")])
            ELSE h1
      h3 == IF /\ isMemory
               /\ Has(permission, "access")
               /\ \E i \in 1..Len(permission.access) : permission.access[i] = "write"
               /\ (~Truthy(permission, "scope") \/ permission.scope = "global")
              THEN Push(h2, result.warnings,
                        [code |-> "permission-too-broad",
                         path |-> PermPath(index, "scope")])
            ELSE h2
  IN h3

\* manifest.permissions.forEach((permission, index) => ...), index from 0;
\* k is the number of permissions already visited
RECURSIVE forEachPermission(_, _, _, _)
forEachPermission(permissions, k, result, h) ==
  IF k = Len(permissions) THEN h
  ELSE forEachPermission(permissions, k + 1, result,
         validateSinglePermission(permissions[k + 1], k, result, h))

validatePermissions(manifest, fix, h) ==
  LET result == Spread(defaultResult) IN
    The({[heap |-> h1,
          threw |-> FALSE,
          manifest |-> manifest,
          result |-> [result EXCEPT !.valid = (Len(h1[result.errors]) = 0)]] :
         h1 \in {IF Has(manifest, "type") /\ manifest.type \in {"app", "plugin"}
                   THEN IF \/ ~Has(manifest, "permissions")
                           \/ Len(manifest.permissions) = 0
                          THEN Push(h, result.warnings, [code |-> "permissions-empty"])
                        ELSE forEachPermission(manifest.permissions, 0, result, h)
                 ELSE h}})

(***************************************************************************)
(* The file system.  A path is a sequence of names from the root; the file *)
(* system maps the paths that exist to nodes.  A node is a directory, a    *)
(* regular file with a content, or a symbolic link with a target path.     *)
(***************************************************************************)
DirNode == [kind |-> "dir", readable |-> TRUE]
LockedDirNode == [kind |-> "dir", readable |-> FALSE]
FileNode(content) == [kind |-> "file", readable |-> TRUE, content |-> content]
LockedFileNode(content) == [kind |-> "file", readable |-> FALSE, content |-> content]
LinkNode(target) == [kind |-> "link", readable |-> TRUE, target |-> target]
NoNode == [kind |-> "none", readable |-> FALSE]

Lookup(f, p) == IF p \in DOMAIN f THEN f[p] ELSE NoNode

IsPrefix(p, q) == Len(p) <= Len(q) /\ SubSeq(q, 1, Len(p)) = p

\* path.normalize on an absolute path: "." is dropped, ".." removes the
\* component before it
RECURSIVE NormalizeFrom(_, _)
NormalizeFrom(done, rest) ==
  IF rest = <<>> THEN done
  ELSE IF Head(rest) = "." THEN NormalizeFrom(done, Tail(rest))
  ELSE IF Head(rest) = ".."
    THEN NormalizeFrom(IF done = <<>> THEN done ELSE SubSeq(done, 1, Len(done) - 1),
                       Tail(rest))
  ELSE NormalizeFrom(Append(done, Head(rest)), Tail(rest))
Normalize(p) == NormalizeFrom(<<>>, p)

\* Path resolution by the kernel: every component is looked up in turn, a
\* symbolic link is replaced by its target, and the resolution fails with
\* ELOOP once more than SymloopMax links were followed.  The result names
\* the real node the path denotes.
RECURSIVE ResolveFrom(_, _, _, _)
ResolveFrom(f, cur, rest, hops) ==
  IF rest = <<>> THEN [err |-> "ok", path |-> cur]
  ELSE LET cand == Append(cur, Head(rest))
           node == Lookup(f, cand)
       IN CASE node.kind = "none" -> [err |-> "ENOENT", path |-> cand]
            [] node.kind = "link" ->
                 IF hops >= SymloopMax THEN [err |-> "ELOOP", path |-> cand]
                 ELSE ResolveFrom(f, <<>>, node.target \o Tail(rest), hops + 1)
            [] node.kind = "file" ->
                 IF Tail(rest) = <<>> THEN [err |-> "ok", path |-> cand]
                 ELSE [err |-> "ENOTDIR", path |-> cand]
            [] node.kind = "dir" -> ResolveFrom(f, cand, Tail(rest), hops)
Resolve(f, p) == ResolveFrom(f, <<>>, p, 0)

\* fs.stat: follows symbolic links; fails when the path does not resolve
stat(f, p) ==
  The({IF r.err # "ok" THEN [threw |-> TRUE, kind |-> "none"]
       ELSE [threw |-> FALSE,
             kind |-> IF r.path = <<>> THEN "dir" ELSE Lookup(f, r.path).kind] :
       r \in {Resolve(f, p)}})

\* fs.pathExists and fs.existsSync: true when the path resolves
pathExists(f, p) == Resolve(f, p).err = "ok"

\* The order in which readdir lists the names of a directory.
NameOrder == <<".env", ".git", ".npmrc", "A.tsx", "B.jsx", "README.md",
               "credentials.json", "lib", "manifest.json", "node_modules",
               "old.txt", "package.json", "secrets.json", "src", "sub", "x.tsx">>
DotNames == {".env", ".git", ".npmrc"}
\* item.startsWith('.')
StartsWithDot(name) == name \in DotNames
\* item.endsWith(ext)
EndsWith(name, ext) ==
  <<name, ext>> \in {<<"A.tsx", ".tsx">>, <<"x.tsx", ".tsx">>, <<"B.jsx", ".jsx">>,
                     <<"README.md", ".md">>, <<"manifest.json", ".json">>,
                     <<"package.json", ".json">>, <<"secrets.json", ".json">>,
                     <<"credentials.json", ".json">>}

\* fs.readdir without options: the names in the directory the path denotes
readdir(f, p) ==
  The({LET node == IF r.path = <<>> THEN DirNode ELSE Lookup(f, r.path) IN
         IF r.err # "ok" \/ node.kind # "dir" \/ ~node.readable
           THEN [threw |-> TRUE, items |-> <<>>]
         ELSE [threw |-> FALSE,
               items |-> SelectSeq(NameOrder,
                                   LAMBDA n : Append(r.path, n) \in DOMAIN f)] :
       r \in {Resolve(f, p)}})

\* fs.readFile: the content of the file the path denotes
readFile(f, p) ==
  The({LET node == Lookup(f, r.path) IN
         IF r.err # "ok" \/ node.kind # "file" \/ ~node.readable
           THEN [threw |-> TRUE, content |-> ""]
         ELSE [threw |-> FALSE, content |-> node.content] :
       r \in {Resolve(f, p)}})

(***************************************************************************)
(* validateSecurity                                                        *)
(***************************************************************************)
\* The texts a package.json holds in this model, and what JSON.parse makes
\* of each: "{" is not JSON; the others are objects, with the scripts map
\* as the sequence of its entries in insertion order.
JsonTexts == {"{", "{}", "{scripts:{build}}", "{scripts:{build,deploy:sudo}}",
              "{scripts:{check:visudo,n:1,deploy:sudo}}"}
Tsc == <<"t","s","c">>
SudoMake == <<"s","u","d","o"," ","m","a","k","e">>
Visudo == <<"v","i","s","u","d","o">>
JsonParse(text) ==
  CASE text = "{}" -> [name |-> "pkg"]
    [] text = "{scripts:{build}}" ->
         [name |-> "pkg",
          scripts |-> <<[name |-> "build", type |-> "string", value |-> Tsc]>>]
    [] text = "{scripts:{build,deploy:sudo}}" ->
         [name |-> "pkg",
          scripts |-> <<[name |-> "build", type |-> "string", value |-> Tsc],
                        [name |-> "deploy", type |-> "string", value |-> SudoMake]>>]
    [] text = "{scripts:{check:visudo,n:1,deploy:sudo}}" ->
         [name |-> "pkg",
          scripts |-> <<[name |-> "check", type |-> "string", value |-> Visudo],
                        [name |-> "n", type |-> "number"],
                        [name |-> "deploy", type |-> "string", value |-> SudoMake]>>]

\* fs.readJson: rejects when the file cannot be read or is not JSON; a file
\* that fs.writeJson wrote holds the text of the value it was given
readJson(f, p) ==
  The({IF r.threw THEN [threw |-> TRUE]
       ELSE IF Has(Lookup(f, Resolve(f, p).path), "json")
         THEN [threw |-> FALSE, value |-> Lookup(f, Resolve(f, p).path).json]
       ELSE IF r.content \notin JsonTexts \ {"{"} THEN [threw |-> TRUE]
       ELSE [threw |-> FALSE, value |-> JsonParse(r.content)] :
       r \in {readFile(f, p)}})

\* the loop over the scripts with a test for "sudo" without the blank
RECURSIVE forEachScriptAnySudo(_, _, _, _)
forEachScriptAnySudo(scripts, k, result, h) ==
  IF k > Len(scripts) THEN h
  ELSE LET e == scripts[k]
           h1 == IF e.type = "string" /\ Includes(e.value, <<"s","u","d","o">>)
                   THEN Push(h, result.errors,
                             [code |-> "security-sudo-in-script",
                              path |-> <<"package.json", "scripts", e.name>>])
                 ELSE h
       IN forEachScriptAnySudo(scripts, k + 1, result, h1)

\* Object.entries(packageJson.scripts).forEach(([name, script]) => ...)
RECURSIVE forEachScript(_, _, _, _)
forEachScript(scripts, k, result, h) ==
  IF k > Len(scripts) THEN h
  ELSE LET e == scripts[k]
           h1 == IF e.type = "string" /\ Includes(e.value, <<"s","u","d","o"," ">>)
                   THEN Push(h, result.errors,
                             [code |-> "security-sudo-in-script",
                              path |-> <<"package.json", "scripts", e.name>>])
                 ELSE h
       IN forEachScript(scripts, k + 1, result, h1)

validateSecurity(f, projectDir, h) ==
  LET result == Spread(defaultResult)
      packageJsonPath == Normalize(Append(projectDir, "package.json"))
  IN The({
       IF pathExists(f, packageJsonPath) /\ packageJson.threw
         THEN [heap |-> h, threw |-> TRUE, fs |-> f]
       ELSE The({[heap |-> h1,
                  threw |-> FALSE,
                  fs |-> f,
                  result |-> [result EXCEPT !.valid = (Len(h1[result.errors]) = 0)]] :
                 h1 \in {IF /\ pathExists(f, packageJsonPath)
                            /\ Has(packageJson.value, "scripts")
                           THEN forEachScript(packageJson.value.scripts, 1, result, h)
                         ELSE h}}) :
       packageJson \in {readJson(f, packageJsonPath)}})

(***************************************************************************)
(* findFiles.  Besides the list of files that the function returns, the    *)
(* outcome records the deepest nesting of calls that was reached and the   *)
(* directories whose listing was read.                                     *)
(***************************************************************************)
NoFiles(depth) == [files |-> <<>>, depth |-> depth, entered |-> {}]
Max(a, b) == IF a >= b THEN a ELSE b

RECURSIVE findFiles(_, _, _, _)
RECURSIVE findFilesItems(_, _, _, _, _)

\* the body of `for (const item of items)`, for the items that are left
findFilesItems(f, normalizedDir, items, extensions, depth) ==
  IF items = <<>> THEN NoFiles(depth)
  ELSE LET item == Head(items) IN
    The({The({The({The({
      [files |-> here.files \o rest.files,
       depth |-> Max(here.depth, rest.depth),
       entered |-> here.entered \cup rest.entered] :
      rest \in {findFilesItems(f, normalizedDir, Tail(items), extensions, depth)}}) :
      here \in {
        IF StartsWithDot(item) THEN NoFiles(depth)
        ELSE IF ~IsPrefix(normalizedDir, fullPath) THEN NoFiles(depth)
        ELSE IF stats.threw THEN NoFiles(depth)
        ELSE IF stats.kind = "dir"
          THEN findFiles(f, fullPath, extensions, depth + 1)
        ELSE IF /\ stats.kind = "file"
                /\ \E i \in 1..Len(extensions) : EndsWith(item, extensions[i])
          THEN [files |-> <<fullPath>>, depth |-> depth, entered |-> {}]
        ELSE NoFiles(depth)}}) :
      stats \in {stat(f, fullPath)}}) :
      fullPath \in {Normalize(Append(normalizedDir, item))}})

\* Paths of the model are absolute, so the path.isAbsolute test passes.
findFiles(f, dir, extensions, depth) ==
  The({The({
    IF ~pathExists(f, normalizedDir) THEN NoFiles(depth)
    ELSE IF listing.threw THEN NoFiles(depth)
    ELSE [findFilesItems(f, normalizedDir, listing.items, extensions, depth)
            EXCEPT !.entered = @ \cup {normalizedDir}] :
    listing \in {readdir(f, normalizedDir)}}) :
    normalizedDir \in {Normalize(dir)}})

(***************************************************************************)
(* validateAccessibility                                                   *)
(***************************************************************************)
\* null, the value safeReadFile returns when it gives up
Null == "null"

safeReadFile(f, filePath, baseDir) ==
  LET normalizedFilePath == Normalize(filePath)
      normalizedBaseDir == Normalize(baseDir)
  IN IF ~IsPrefix(normalizedBaseDir, normalizedFilePath) THEN Null
     ELSE IF ~pathExists(f, normalizedFilePath) THEN Null
     ELSE The({IF r.threw THEN Null ELSE r.content :
               r \in {readFile(f, normalizedFilePath)}})

safePathExists(f, targetPath, baseDir) ==
  LET normalizedPath == Normalize(targetPath)
      normalizedBaseDir == Normalize(baseDir)
  IN IF ~IsPrefix(normalizedBaseDir, normalizedPath) THEN FALSE
     ELSE pathExists(f, normalizedPath)

\* The texts a source file holds in this model, and the ones that
\* /<img\s+(?![^>]*\balt=)[^>]*\/?>/i matches.
SourceTexts == {"", "<div/>", "<img src='a.png'/>", "<img src='a.png' alt='a'/>"}
imgTagWithoutAlt(content) == content = "<img src='a.png'/>"

\* path.relative(from, to) for a path below from
Relative(from, to) == SubSeq(to, Len(from) + 1, Len(to))

\* the body of `for (const file of files)`, for the files that are left
RECURSIVE forEachFile(_, _, _, _, _)
forEachFile(f, files, normalizedProjectDir, result, h) ==
  IF files = <<>> THEN h
  ELSE LET file == Head(files) IN
    The({forEachFile(f, Tail(files), normalizedProjectDir, result, h1) :
         h1 \in {IF ~IsPrefix(normalizedProjectDir, file) THEN h
                 ELSE The({IF content = Null \/ content = "" THEN h
                           ELSE IF imgTagWithoutAlt(content)
                             THEN Push(h, result.warnings,
                                       [code |-> "a11y-missing-alt",
                                        path |-> Relative(normalizedProjectDir, file)])
                           ELSE h :
                           content \in {safeReadFile(f, file, normalizedProjectDir)}})}})

\* No call inside the outer try block throws in this model, so the
\* a11y-check-failed branch is not taken.
validateAccessibility(f, projectDir, h) ==
  LET result == Spread(defaultResult)
      normalizedProjectDir == Normalize(projectDir)
      srcDir == Normalize(Append(normalizedProjectDir, "src"))
      srcExists == safePathExists(f, srcDir, normalizedProjectDir)
  IN The({The({[heap |-> h1,
                threw |-> FALSE,
                fs |-> f,
                result |-> [result EXCEPT !.valid = (Len(h1[result.errors]) = 0)]] :
               h1 \in {forEachFile(f, files, normalizedProjectDir, result, h)}}) :
          files \in {IF srcExists
                       THEN findFiles(f, srcDir, <<".tsx", ".jsx">>, 1).files
                     ELSE <<>>}})

(***************************************************************************)
(* secureCopyTemplate.  The outcome is the file system the copy leaves,    *)
(* whether it rejected, the deepest nesting of calls that was reached, the *)
(* source entries that were copied and the real files whose bytes were     *)
(* read.                                                                   *)
(***************************************************************************)
\* IGNORED_FILES without its two file names that hold no dot in front
IgnoredDotNamesOnly ==
  <<".git", ".DS_Store", "node_modules", ".env", ".env.local", ".env.development",
    ".env.test", ".env.production", ".env.example">>

\* const IGNORED_FILES = [...]
IGNORED_FILES == <<".git", ".DS_Store", "node_modules", ".env", ".env.local",
                   ".env.development", ".env.test", ".env.production",
                   ".env.example", "secrets.json", "credentials.json">>

\* The type a directory entry reports (fs.Dirent): the node itself, a
\* symbolic link is not followed.
lstat(f, p) ==
  LET parent == Resolve(f, SubSeq(p, 1, Len(p) - 1)) IN
    IF parent.err # "ok" THEN NoNode
    ELSE Lookup(f, Append(parent.path, p[Len(p)]))

\* an ensureDir that creates nothing
ensureDirNothing(f, p) == f

\* fs.ensureDir on a path whose parent exists
ensureDir(f, p) ==
  IF p \in DOMAIN f THEN f ELSE (p :> DirNode) @@ f

\* fs.copyFile: reads the bytes of the file that src denotes, following
\* symbolic links, and writes them to a regular file at dest
copyFile(f, src, dest) ==
  The({IF r.threw THEN [threw |-> TRUE, fs |-> f, read |-> {}]
       ELSE [threw |-> FALSE,
             fs |-> (dest :> FileNode(r.content)) @@ f,
             read |-> {Resolve(f, src).path}] :
       r \in {readFile(f, src)}})

RECURSIVE secureCopyTemplate(_, _, _, _)
RECURSIVE secureCopyEntries(_, _, _, _, _)

\* the body of `for (const entry of entries)`, for the entries that are
\* left; an exception ends the loop
secureCopyEntries(f, src, dest, entries, depth) ==
  IF entries = <<>>
    THEN [fs |-> f, threw |-> FALSE, depth |-> depth, copied |-> <<>>, read |-> {}]
  ELSE LET name == Head(entries)
           srcPath == Normalize(Append(src, name))
           destPath == Normalize(Append(dest, name))
       IN The({
         IF here.threw THEN here
         ELSE The({[fs |-> rest.fs,
                    threw |-> rest.threw,
                    depth |-> Max(here.depth, rest.depth),
                    copied |-> here.copied \o rest.copied,
                    read |-> here.read \cup rest.read] :
                   rest \in {secureCopyEntries(here.fs, src, dest, Tail(entries),
                                               depth)}}) :
         here \in {
           IF \E i \in 1..Len(IGNORED_FILES) : IGNORED_FILES[i] = name
             THEN [fs |-> f, threw |-> FALSE, depth |-> depth,
                   copied |-> <<>>, read |-> {}]
           ELSE IF lstat(f, srcPath).kind = "dir"
             THEN The({secureCopyTemplate(made, srcPath, destPath, depth + 1) :
                       made \in {ensureDir(f, destPath)}})
           ELSE The({[fs |-> c.fs, threw |-> c.threw, depth |-> depth,
                      copied |-> IF c.threw THEN <<>> ELSE <<srcPath>>,
                      read |-> c.read] :
                     c \in {copyFile(f, srcPath, destPath)}})}})

\* An empty listing only logs a warning before the function returns.
secureCopyTemplate(f, src, dest, depth) ==
  The({IF entries.threw
         THEN [fs |-> f, threw |-> TRUE, depth |-> depth, copied |-> <<>>,
               read |-> {}]
       ELSE secureCopyEntries(f, src, dest, entries.items, depth) :
       entries \in {readdir(f, src)}})

(***************************************************************************)
(* The validate command: runAllValidations, consolidateResults and         *)
(* displayValidationResults.                                               *)
(***************************************************************************)
\* The four validators in turn, each on the heap, the manifest object and
\* the file system the one before left.  A rejection of validateSecurity
\* ends the function: nothing catches it.
runAllValidations(f, manifest, projectDir, fix, h) ==
  The({The({The({
    IF s.threw
      THEN [heap |-> s.heap, threw |-> TRUE, fs |-> s.fs, calls |-> <<m, p, s>>]
    ELSE The({[heap |-> a.heap, threw |-> FALSE, fs |-> a.fs,
               calls |-> <<m, p, s, a>>,
               results |-> [manifestResult |-> m.result,
                            permissionsResult |-> p.result,
                            securityResult |-> s.result,
                            accessibilityResult |-> a.result]] :
              a \in {validateAccessibility(s.fs, projectDir, s.heap)}}) :
    s \in {validateSecurity(f, projectDir, p.heap)}}) :
    p \in {validatePermissions(m.manifest, fix, m.heap)}}) :
    m \in {validateManifest(manifest, fix, h)}})

\* {...item, category: cat}
WithCategory(item, cat) ==
  [x \in DOMAIN item \cup {"category"} |-> IF x = "category" THEN cat ELSE item[x]]
\* items.map(item => ({...item, category: cat}))
MapCategory(items, cat) ==
  IF items = <<>> THEN <<>>
  ELSE [i \in 1..Len(items) |-> WithCategory(items[i], cat)]

\* The arrays of a result are read through the references the result holds.
consolidateResults(results, h) ==
  [valid |-> /\ results.manifestResult.valid
             /\ results.permissionsResult.valid
             /\ results.securityResult.valid
             /\ results.accessibilityResult.valid,
   errors |-> MapCategory(h[results.manifestResult.errors], "manifest")
              \o MapCategory(h[results.permissionsResult.errors], "permissions")
              \o MapCategory(h[results.securityResult.errors], "security")
              \o MapCategory(h[results.accessibilityResult.errors], "accessibility"),
   warnings |-> MapCategory(h[results.manifestResult.warnings], "manifest")
                \o MapCategory(h[results.permissionsResult.warnings], "permissions")
                \o MapCategory(h[results.securityResult.warnings], "security")
                \o MapCategory(h[results.accessibilityResult.warnings], "accessibility")]

\* What the human-readable report shows: allValid, totalErrors, totalWarnings.
displayValidationResults(results, h) ==
  [valid |-> /\ results.manifestResult.valid
             /\ results.permissionsResult.valid
             /\ results.securityResult.valid
             /\ results.accessibilityResult.valid,
   errors |-> h[results.manifestResult.errors]
              \o h[results.permissionsResult.errors]
              \o h[results.securityResult.errors]
              \o h[results.accessibilityResult.errors],
   warnings |-> h[results.manifestResult.warnings]
                \o h[results.permissionsResult.warnings]
                \o h[results.securityResult.warnings]
                \o h[results.accessibilityResult.warnings]]

(***************************************************************************)
(* Inputs: manifests and file trees.                                       *)
(***************************************************************************)
ComExampleOk == <<"c","o","m",".","e","x","a","m","p","l","e",".","o","k">>
BadId == <<"b","a","d"," ","i","d">>
V100 == <<"1",".","0",".","0">>
V10 == <<"1",".","0">>

\* {id:"bad id", name:"", version:"1.0", type:"widget"}
ManifestA == [id |-> BadId, name |-> "", version |-> V10, type |-> "widget"]
\* {id:"com.example.ok", name:"OK", version:"1.0.0", type:"app", permissions:[]}
ManifestB == [id |-> ComExampleOk, name |-> "OK", version |-> V100, type |-> "app",
              permissions |-> <<>>]
\* an agent with every recommended field: no validator has a finding
ManifestClean == [id |-> ComExampleOk, name |-> "OK", version |-> V100,
                  type |-> "agent", description |-> "d", author |-> [name |-> "n"]]
\* a plugin with a broad memory grant, a grant without type and a memory
\* grant without access
ManifestPerm == [id |-> ComExampleOk, name |-> "OK", version |-> V100,
                 type |-> "plugin", description |-> "d", author |-> [name |-> "n"],
                 permissions |-> <<[type |-> "memory", access |-> <<"write">>],
                                   [access |-> <<"read">>],
                                   [type |-> "memory", scope |-> "project"]>>]
\* a manifest without the type property
ManifestNoType == [id |-> ComExampleOk, name |-> "OK", version |-> V100,
                   description |-> "d", author |-> [name |-> "n"]]
Manifests == {ManifestA, ManifestB, ManifestClean, ManifestPerm, ManifestNoType}

\* ids at and around the limits of the id pattern
Repeat(c, n) == [i \in 1..n |-> c]
\* n one-letter segments: "a.a.a"
Segments(n) == [i \in 1..(2 * n - 1) |-> IF i % 2 = 1 THEN "a" ELSE "."]
NoDotId == <<"c","o","m">>
DigitFirstId == <<"1","a",".","b">>
EmptySegmentId == <<"a",".",".","b">>
FirstSegment64Id == Repeat("a", 64) \o <<".","b">>
FirstSegment65Id == Repeat("a", 65) \o <<".","b">>
LaterSegment63Id == <<"a",".">> \o Repeat("b", 63)
LaterSegment64Id == <<"a",".">> \o Repeat("b", 64)
LaterSegment65Id == <<"a",".">> \o Repeat("b", 65)
IdChoices == {<<>>, BadId, NoDotId, DigitFirstId, EmptySegmentId, ComExampleOk,
              FirstSegment64Id, FirstSegment65Id, LaterSegment63Id,
              LaterSegment64Id, LaterSegment65Id,
              Segments(10), Segments(11), Segments(12)}

\* the largest repetition count that a pattern of the code states: {0,63}
\* and {1,63} in the id pattern
RepetitionCap == 63
\* a version whose major number has one digit more than that
LongVersion == Repeat("1", RepetitionCap + 1) \o <<".","0",".","0">>

\* the manifests made of every choice for each required field, a field
\* being absent or holding one of a few values
NoFields == [q \in {} |-> ""]
ManifestInputs ==
  {i @@ n @@ v @@ t :
     i \in {NoFields} \cup {[id |-> x] : x \in IdChoices},
     n \in {NoFields, [name |-> ""], [name |-> "OK"]},
     v \in {NoFields} \cup {[version |-> x] : x \in {<<>>, V10, V100, LongVersion}},
     t \in {NoFields} \cup {[type |-> x] : x \in {"", "widget", "app"}}}

\* permissions: the broad grant (memory, write, no scope), the same grant
\* with a global scope, with a project scope and with read access besides,
\* a grant without type, a memory grant without access and a user grant
BroadGrant == [type |-> "memory", access |-> <<"write">>]
PermissionChoices ==
  {BroadGrant,
   [type |-> "memory", access |-> <<"write">>, scope |-> "global"],
   [type |-> "memory", access |-> <<"write">>, scope |-> "project"],
   [type |-> "memory", access |-> <<"read", "write">>],
   [access |-> <<"read">>],
   [type |-> "memory"],
   [type |-> "user"]}
\* the lists of at most n permissions
PermissionLists(n) ==
  UNION {[1..k -> PermissionChoices] : k \in 0..n}
\* the manifests with valid required fields, of every type or none, with no
\* permissions property or at most two permissions
PermissionManifests ==
  {[id |-> ComExampleOk, name |-> "OK", version |-> V100] @@ t @@ ps :
     t \in {NoFields} \cup {[type |-> x] : x \in {"app", "plugin", "agent", "widget"}},
     ps \in {NoFields} \cup {[permissions |-> l] : l \in PermissionLists(2)}}

\* process.cwd() of the validate command
ProjectDir == <<"proj">>
OutsideDir == <<"out">>
\* the template directory and the target directory of the init command
TemplateDir == <<"tpl">>
TargetDir == <<"new">>

NoAlt == "<img src='a.png'/>"
WithAlt == "<img src='a.png' alt='a'/>"

EmptyTree == [q \in {} |-> DirNode]

\* a directory outside every root, holding one source file
OutsideTree == (<<"out">> :> DirNode) @@ (<<"out", "x.tsx">> :> FileNode(NoAlt))

PackageChoices == {"absent", "locked"} \cup JsonTexts
PackageTree(pkg) ==
  CASE pkg = "absent" -> EmptyTree
    [] pkg = "locked" -> (<<"proj", "package.json">> :> LockedFileNode("{}"))
    [] OTHER -> (<<"proj", "package.json">> :> FileNode(pkg))

SourceChoices == {"none", "plain", "clean", "linkOut", "linkUp", "linkSelf",
                  "linkFile", "locked", "modules"}
SourceTree(src) ==
  LET dir == (<<"proj", "src">> :> DirNode) IN
  CASE src = "none" -> EmptyTree
    [] src = "plain" ->
         dir @@ (<<"proj", "src", "A.tsx">> :> FileNode(NoAlt))
             @@ (<<"proj", "src", "sub">> :> DirNode)
             @@ (<<"proj", "src", "sub", "B.jsx">> :> FileNode(WithAlt))
    [] src = "clean" ->
         dir @@ (<<"proj", "src", "A.tsx">> :> FileNode("<div/>"))
             @@ (<<"proj", "src", "README.md">> :> FileNode(NoAlt))
    [] src = "linkOut" ->
         dir @@ (<<"proj", "src", "A.tsx">> :> FileNode("<div/>"))
             @@ (<<"proj", "src", "sub">> :> LinkNode(OutsideDir))
    [] src = "linkUp" ->
         dir @@ (<<"proj", "src", "A.tsx">> :> FileNode(NoAlt))
             @@ (<<"proj", "src", "sub">> :> LinkNode(<<"proj", "src">>))
    [] src = "linkSelf" ->
         dir @@ (<<"proj", "src", "A.tsx">> :> FileNode(""))
             @@ (<<"proj", "src", "sub">> :> LinkNode(<<"proj", "src", "sub">>))
    [] src = "linkFile" ->
         dir @@ (<<"proj", "src", "A.tsx">> :> LinkNode(<<"out", "x.tsx">>))
    [] src = "locked" ->
         dir @@ (<<"proj", "src", "A.tsx">> :> LockedFileNode(NoAlt))
             @@ (<<"proj", "src", "B.jsx">> :> FileNode(NoAlt))
             @@ (<<"proj", "src", "sub">> :> LockedDirNode)
    [] src = "modules" ->
         dir @@ (<<"proj", "src", "node_modules">> :> DirNode)
             @@ (<<"proj", "src", "node_modules", "x.tsx">> :> FileNode(NoAlt))
             @@ (<<"proj", "src", ".git">> :> DirNode)
             @@ (<<"proj", "src", ".git", "x.tsx">> :> FileNode(NoAlt))

ProjectTree(pkg, src) ==
  (ProjectDir :> DirNode) @@ PackageTree(pkg) @@ SourceTree(src) @@ OutsideTree

TemplateChoices == {"plain", "secrets", "linkFile", "linkDir", "linkSelf",
                    "locked", "empty", "missing"}
TemplateTree(tpl) ==
  LET dir == (TemplateDir :> DirNode)
             @@ (<<"tpl", "manifest.json">> :> FileNode("{}"))
  IN
  CASE tpl = "plain" ->
         dir @@ (<<"tpl", "src">> :> DirNode)
             @@ (<<"tpl", "src", "A.tsx">> :> FileNode(WithAlt))
             @@ (<<"tpl", "src", "sub">> :> DirNode)
             @@ (<<"tpl", "src", "sub", "B.jsx">> :> FileNode("<div/>"))
    [] tpl = "secrets" ->
         dir @@ (<<"tpl", ".env">> :> FileNode("KEY"))
             @@ (<<"tpl", ".npmrc">> :> FileNode("TOKEN"))
             @@ (<<"tpl", "secrets.json">> :> FileNode("{}"))
             @@ (<<"tpl", "lib">> :> DirNode)
             @@ (<<"tpl", "lib", "credentials.json">> :> FileNode("{}"))
    [] tpl = "linkFile" ->
         dir @@ (<<"tpl", "README.md">> :> LinkNode(<<"out", "x.tsx">>))
             @@ (<<"tpl", "package.json">> :> FileNode("{}"))
    [] tpl = "linkDir" ->
         dir @@ (<<"tpl", "lib">> :> LinkNode(OutsideDir))
             @@ (<<"tpl", "package.json">> :> FileNode("{}"))
    [] tpl = "linkSelf" ->
         dir @@ (<<"tpl", "lib">> :> LinkNode(<<"tpl", "lib">>))
             @@ (<<"tpl", "package.json">> :> FileNode("{}"))
    [] tpl = "locked" ->
         dir @@ (<<"tpl", "README.md">> :> LockedFileNode("r"))
             @@ (<<"tpl", "package.json">> :> FileNode("{}"))
    [] tpl = "empty" ->
         (TemplateDir :> DirNode) @@ (<<"tpl", "lib">> :> DirNode)
    [] tpl = "missing" -> EmptyTree

\* what the directories the init command may be asked to create hold
\* beforehand: nothing, or an earlier project
TargetChoices == {"absent", "existing"}
TargetTree(tgt) ==
  CASE tgt = "absent" -> EmptyTree
    [] tgt = "existing" ->
         (<<"new">> :> DirNode)
           @@ (<<"new", "old.txt">> :> FileNode("old"))
           @@ (<<"new", "src">> :> DirNode)
           @@ (<<"new", "src", "A.tsx">> :> FileNode(NoAlt))
           @@ (<<"my-project">> :> DirNode)
           @@ (<<"my-project", "old.txt">> :> FileNode("old"))

\* the projects in which the publish command runs: manifest.json absent,
\* not JSON, not readable, or holding a manifest; dist absent, a directory
\* or a regular file
ManifestFileChoices == {"absent", "notJson", "locked", "clean", "B", "A"}
ManifestFileTree(man) ==
  LET p == Append(ProjectDir, "manifest.json")
      Holding(manifest) ==
        p :> [kind |-> "file", readable |-> TRUE, content |-> "json",
              json |-> manifest]
  IN CASE man = "absent" -> EmptyTree
       [] man = "notJson" -> (p :> FileNode("{"))
       [] man = "locked" -> (p :> LockedFileNode("{}"))
       [] man = "clean" -> Holding(ManifestClean)
       [] man = "B" -> Holding(ManifestB)
       [] man = "A" -> Holding(ManifestA)
DistChoices == {"absent", "dir", "file"}
DistTree(dist) ==
  CASE dist = "absent" -> EmptyTree
    [] dist = "dir" -> (Append(ProjectDir, "dist") :> DirNode)
                       @@ (<<"proj", "dist", "x.tsx">> :> FileNode("<div/>"))
    [] dist = "file" -> (Append(ProjectDir, "dist") :> FileNode(""))
PublishTree(man, pkg, src, dist) ==
  ProjectTree(pkg, src) @@ ManifestFileTree(man) @@ DistTree(dist)
\* the options of a run of the publish command and the answers to its
\* prompts
PublishOptions == [skipValidation : BOOLEAN, dryRun : BOOLEAN]
PublishAnswers == [proceed : BOOLEAN, confirm : BOOLEAN]

\* the arguments, the options and the answers to the prompts of a run of
\* the init command; npmOk tells whether npm install succeeds
InitArgs == {[none |-> TRUE],
             [name |-> <<"n","e","w">>],
             [name |-> <<"A","p","p","_","1">>],
             [name |-> <<"_">>],
             [name |-> <<".",".","/","x">>]}
InitOptions ==
  {[type |-> "app", yes |-> y, skipInstall |-> k] : y \in BOOLEAN, k \in BOOLEAN}
  \cup {[type |-> "widget", yes |-> FALSE, skipInstall |-> TRUE],
        [type |-> "plugin", yes |-> FALSE, skipInstall |-> TRUE,
         dir |-> <<"sub", "..", "new">>]}
InitAnswers ==
  {[name |-> <<"A","p","p","_","1">>, overwrite |-> o, npmOk |-> n] :
     o \in BOOLEAN, n \in BOOLEAN}

(***************************************************************************)
(* State.                                                                  *)
(***************************************************************************)
VARIABLES
  fs,        \* the file system
  heap,      \* the contents of the arrays that defaultResult refers to
  returned,  \* the outcome of every validator call so far, oldest first
  runs,      \* the outcome of every run of the validate command so far
  ncalls,    \* number of calls and runs made so far
  walk,      \* the outcome of the last call of findFiles
  copy,      \* the outcome of the last call of secureCopyTemplate
  project,   \* the outcome of the last run of the init command
  publish    \* the outcome of the last run of the publish command

vars == <<fs, heap, returned, runs, ncalls, walk, copy, project, publish>>

NoWalk == [done |-> FALSE]
NoCopy == [done |-> FALSE]
NoProject == [done |-> FALSE]
NoPublish == [done |-> FALSE]

\* The record kept of a call secureCopyTemplate(root, dest) that started on
\* the file system before and had the outcome out; created holds the paths
\* the call added and tree the entries it left at them.
CopyRecord(root, dest, before, out) ==
  [done |-> TRUE, root |-> root, dest |-> dest, threw |-> out.threw,
   depth |-> out.depth, copied |-> out.copied, read |-> out.read,
   created |-> DOMAIN out.fs \ DOMAIN before,
   tree |-> [q \in DOMAIN out.fs \ DOMAIN before |-> out.fs[q]]]

\* what a call appended to the array that ref names
PushedSince(before, after, ref) ==
  SubSeq(after[ref], Len(before[ref]) + 1, Len(after[ref]))

\* The record kept of a validator call: its argument, the object it
\* returned, what the lists of that object held when it was returned, the
\* diagnostics the call itself produced and, for a validator of manifests,
\* the manifest object as the call left it.
Outcome(validator, input, before, call) ==
  IF call.threw THEN [validator |-> validator, input |-> input, threw |-> TRUE]
  ELSE [validator |-> validator,
        input |-> input,
        threw |-> FALSE,
        result |-> call.result,
        errors |-> call.heap[call.result.errors],
        warnings |-> call.heap[call.result.warnings],
        ownErrors |-> PushedSince(before, call.heap, ErrorsArray),
        ownWarnings |-> PushedSince(before, call.heap, WarningsArray)]
       @@ (IF Has(call, "manifest") THEN [manifest |-> call.manifest]
           ELSE NoFields)

(***************************************************************************)
(* The init command.  The outcome of createProject is the file system it   *)
(* leaves, whether it rejected, whether it removed an existing target, the *)
(* record of its template copy and whether it reached its end.             *)
(***************************************************************************)
\* /^[a-zA-Z0-9-_]+$/
NamePattern(s) ==
  /\ Len(s) >= 1
  /\ \A i \in 1..Len(s) : s[i] \in Lower \cup Upper \cup Digit \cup {"-", "_"}

LowerSeq == <<"a","b","c","d","e","f","g","h","i","j","k","l","m",
              "n","o","p","q","r","s","t","u","v","w","x","y","z">>
UpperSeq == <<"A","B","C","D","E","F","G","H","I","J","K","L","M",
              "N","O","P","Q","R","S","T","U","V","W","X","Y","Z">>
\* String.prototype.toLowerCase
ToLowerCase(s) ==
  [i \in 1..Len(s) |->
     IF s[i] \in Upper
       THEN LowerSeq[CHOOSE k \in 1..Len(UpperSeq) : UpperSeq[k] = s[i]]
     ELSE s[i]]

\* projectName.toLowerCase().replace(/[^a-z0-9]/g, '')
SafeId(projectName) ==
  SelectSeq(ToLowerCase(projectName), LAMBDA c : c \in Lower \cup Digit)

\* `com.example.${safeId}`
ExampleId(safeId) == <<"c","o","m",".","e","x","a","m","p","l","e",".">> \o safeId

\* fs.removeSync: the entry and everything beneath it
removeSync(f, p) == [q \in {q \in DOMAIN f : ~IsPrefix(p, q)} |-> f[q]]

\* fs.writeJson: a regular file that holds the text of the value
writeJson(f, p, value) ==
  (p :> [kind |-> "file", readable |-> TRUE, content |-> "json", json |-> value]) @@ f

\* the updates of package.json and manifest.json in the new project
updateProjectInfo(f, targetDir, name) ==
  LET packageJsonPath == Normalize(Append(targetDir, "package.json"))
      manifestPath == Normalize(Append(targetDir, "manifest.json"))
  IN The({
       IF pathExists(f, packageJsonPath) /\ packageJson.threw
         THEN [fs |-> f, threw |-> TRUE]
       ELSE The({The({
         IF pathExists(f1, manifestPath) /\ manifest.threw
           THEN [fs |-> f1, threw |-> TRUE]
         ELSE IF ~pathExists(f1, manifestPath) THEN [fs |-> f1, threw |-> FALSE]
         ELSE [fs |-> writeJson(f1, manifestPath,
                        [name |-> name,
                         id |-> ExampleId(SafeId(name)),
                         description |->
                           IF Has(manifest.value, "description")
                             THEN manifest.value.description
                           ELSE "A new project"] @@ manifest.value),
               threw |-> FALSE] :
         manifest \in {readJson(f1, manifestPath)}}) :
         f1 \in {IF pathExists(f, packageJsonPath)
                   THEN writeJson(f, packageJsonPath,
                          [name |-> name, version |-> "0.1.0"] @@ packageJson.value)
                 ELSE f}}) :
       packageJson \in {readJson(f, packageJsonPath)}})

\* execSync('npm install', { cwd: targetDir }) inside try/catch: when the
\* command succeeds the project has a node_modules directory
npmInstall(f, targetDir, npmOk) ==
  IF npmOk THEN ensureDir(f, Normalize(Append(targetDir, "node_modules"))) ELSE f

\* process.cwd() of the init command
InitCwd == <<>>
\* path.resolve(process.cwd(), name)
DirName(name) ==
  CASE name = <<"n","e","w">> -> "new"
    [] name = <<"A","p","p","_","1">> -> "App_1"
    [] name = <<"_">> -> "_"
    [] name = <<"m","y","-","p","r","o","j","e","c","t">> -> "my-project"

\* an existing target directory is overwritten whenever --yes is given or
\* the prompt is confirmed
yesMeansOverwrite(options, answers) == options.yes \/ answers.overwrite

\* whether createProject goes on when the target directory exists: not with
\* --yes, and otherwise only when the overwrite prompt is confirmed
mayOverwrite(options, answers) == ~options.yes /\ answers.overwrite

createProject(f, args, options, answers) ==
  LET name == IF Has(args, "name") THEN args.name
              ELSE IF ~options.yes THEN answers.name
              ELSE <<"m","y","-","p","r","o","j","e","c","t">>
      targetDir == IF Has(options, "dir") THEN Normalize(InitCwd \o options.dir)
                   ELSE Normalize(Append(InitCwd, DirName(name)))
      existed == pathExists(f, targetDir)
      Left(g, threw, removed, copied, finished) ==
        [fs |-> g, threw |-> threw, ran |-> TRUE, target |-> targetDir,
         existed |-> existed, removed |-> removed, copy |-> copied,
         finished |-> finished]
  IN IF existed /\ ~mayOverwrite(options, answers)
       THEN Left(f, FALSE, FALSE, NoCopy, FALSE)
     ELSE The({
       IF ~pathExists(cleared, TemplateDir)
         THEN Left(cleared, FALSE, existed, NoCopy, FALSE)
       ELSE The({The({
         IF out.threw
           THEN Left(out.fs, TRUE, existed,
                     CopyRecord(TemplateDir, targetDir, made, out), FALSE)
         ELSE The({
           IF info.threw
             THEN Left(info.fs, TRUE, existed,
                       CopyRecord(TemplateDir, targetDir, made, out), FALSE)
           ELSE Left(IF options.skipInstall THEN info.fs
                     ELSE npmInstall(info.fs, targetDir, answers.npmOk),
                     FALSE, existed,
                     CopyRecord(TemplateDir, targetDir, made, out), TRUE) :
           info \in {updateProjectInfo(out.fs, targetDir, name)}}) :
         out \in {secureCopyTemplate(made, TemplateDir, targetDir, 1)}}) :
         made \in {ensureDir(cleared, targetDir)}}) :
       cleared \in {IF existed THEN removeSync(f, targetDir) ELSE f}})

\* the action of the init command: the name and the type are validated
\* before createProject is called
initCommand(f, args, options, answers) ==
  IF Has(args, "name") /\ ~NamePattern(args.name)
    THEN [fs |-> f, threw |-> FALSE, ran |-> FALSE]
  ELSE IF options.type \notin {"app", "plugin", "agent"}
    THEN [fs |-> f, threw |-> FALSE, ran |-> FALSE]
  ELSE createProject(f, args, options, answers)

(***************************************************************************)
(* The publish command.  The outcome of a run is the sequence of the       *)
(* functions it entered, the exit code it set, what the validation found   *)
(* when it ran, and the heap it left.                                      *)
(***************************************************************************)
\* checkProjectDirectory: the path of manifest.json, or null
checkProjectDirectory(f) ==
  LET manifestPath == Normalize(Append(ProjectDir, "manifest.json")) IN
    IF ~pathExists(f, manifestPath) THEN Null ELSE manifestPath

\* checkBuildDirectory: fs.existsSync on the path of dist
checkBuildDirectory(f) == pathExists(f, Normalize(Append(ProjectDir, "dist")))

\* a confirmation that does not depend on the answer
confirmPublicationAlways(answers) == TRUE

\* the prompts: the answer the user gives
handleValidationWarnings(answers) == answers.proceed
confirmPublication(answers) == answers.confirm

\* validateProject: the four validators without fix, the combined result,
\* and the prompt when the result is valid and holds warnings.  A rejection
\* of validateSecurity leaves the function.
validateProject(f, manifest, answers, h) ==
  The({The({The({
    IF s.threw
      THEN [threw |-> TRUE, heap |-> s.heap, steps |-> <<"validateProject">>]
    ELSE The({The({
      [threw |-> FALSE,
       heap |-> a.heap,
       result |-> result,
       steps |-> IF result.valid /\ Len(result.warnings) > 0
                   THEN <<"validateProject", "handleValidationWarnings">>
                 ELSE <<"validateProject">>,
       isValid |-> IF ~result.valid THEN FALSE
                   ELSE IF Len(result.warnings) > 0
                     THEN handleValidationWarnings(answers)
                   ELSE TRUE] :
      result \in {[valid |-> /\ m.result.valid
                             /\ p.result.valid
                             /\ s.result.valid
                             /\ a.result.valid,
                   errors |-> a.heap[m.result.errors] \o a.heap[p.result.errors]
                              \o a.heap[s.result.errors] \o a.heap[a.result.errors],
                   warnings |-> a.heap[m.result.warnings] \o a.heap[p.result.warnings]
                                \o a.heap[s.result.warnings]
                                \o a.heap[a.result.warnings]]}}) :
      a \in {validateAccessibility(s.fs, ProjectDir, s.heap)}}) :
    s \in {validateSecurity(f, ProjectDir, p.heap)}}) :
    p \in {validatePermissions(m.manifest, FALSE, m.heap)}}) :
    m \in {validateManifest(manifest, FALSE, h)}})

\* the action of the publish command; the catch block sets the exit code
publishCommand(f, options, answers, h) ==
  LET Return(steps, h1) == [steps |-> steps, exitCode |-> 0, heap |-> h1]
      Catch(steps, h1) == [steps |-> steps, exitCode |-> 1, heap |-> h1]
      \* from "Check if build exists" on
      Build(steps, h1) ==
        IF ~checkBuildDirectory(f)
          THEN Return(Append(steps, "checkBuildDirectory"), h1)
        ELSE IF ~options.dryRun /\ ~confirmPublication(answers)
          THEN Return(steps \o <<"checkBuildDirectory", "confirmPublication">>, h1)
        ELSE Return(steps \o <<"checkBuildDirectory">>
                      \o (IF options.dryRun THEN <<>> ELSE <<"confirmPublication">>)
                      \o <<"publishToMarketplace">>, h1)
  IN IF checkProjectDirectory(f) = Null
       THEN Return(<<"checkProjectDirectory">>, h)
     ELSE The({
       IF manifest.threw THEN Catch(<<"checkProjectDirectory", "readJson">>, h)
       ELSE IF options.skipValidation
         THEN Build(<<"checkProjectDirectory", "readJson">>, h)
       ELSE The({
         IF v.threw
           THEN Catch(<<"checkProjectDirectory", "readJson">> \o v.steps, v.heap)
         ELSE [validation |-> v.result]
              @@ (IF ~v.isValid
                    THEN Return(<<"checkProjectDirectory", "readJson">> \o v.steps,
                                v.heap)
                  ELSE Build(<<"checkProjectDirectory", "readJson">> \o v.steps,
                             v.heap)) :
         v \in {validateProject(f, manifest.value, answers, h)}}) :
       manifest \in {readJson(f, checkProjectDirectory(f))}})

(***************************************************************************)
(* The validation process: a process that loaded utils/validation.ts and   *)
(* calls the exported validators and the validate command.                 *)
(***************************************************************************)
InitProcess ==
  /\ heap = [a \in {ErrorsArray, WarningsArray} |-> <<>>]
  /\ returned = <<>>
  /\ runs = <<>>
  /\ ncalls = 0
  /\ walk = NoWalk
  /\ copy = NoCopy
  /\ project = NoProject
  /\ publish = NoPublish

Init ==
  /\ InitProcess
  /\ fs \in {ProjectTree(pkg, src) :
               pkg \in PackageChoices, src \in {"none", "plain", "locked"}}

CallValidateManifest ==
  /\ ncalls < MaxCalls
  /\ \E manifest \in Manifests, fix \in BOOLEAN :
    \E call \in {validateManifest(manifest, fix, heap)} :
      /\ heap' = call.heap
      /\ returned' = Append(returned, Outcome("manifest", manifest, heap, call))
      /\ ncalls' = ncalls + 1
      /\ UNCHANGED <<fs, runs, walk, copy, project, publish>>

CallValidatePermissions ==
  /\ ncalls < MaxCalls
  /\ \E manifest \in Manifests, fix \in BOOLEAN :
    \E call \in {validatePermissions(manifest, fix, heap)} :
      /\ heap' = call.heap
      /\ returned' = Append(returned, Outcome("permissions", manifest, heap, call))
      /\ ncalls' = ncalls + 1
      /\ UNCHANGED <<fs, runs, walk, copy, project, publish>>

CallValidateSecurity ==
  /\ ncalls < MaxCalls
  /\ \E call \in {validateSecurity(fs, ProjectDir, heap)} :
    /\ heap' = call.heap
    /\ fs' = call.fs
    /\ returned' = Append(returned, Outcome("security", ProjectDir, heap, call))
    /\ ncalls' = ncalls + 1
    /\ UNCHANGED <<runs, walk, copy, project, publish>>

CallValidateAccessibility ==
  /\ ncalls < MaxCalls
  /\ \E call \in {validateAccessibility(fs, ProjectDir, heap)} :
    /\ heap' = call.heap
    /\ fs' = call.fs
    /\ returned' = Append(returned, Outcome("accessibility", ProjectDir, heap, call))
    /\ ncalls' = ncalls + 1
    /\ UNCHANGED <<runs, walk, copy, project, publish>>

\* the heap on which the k-th validator call of a run started
HeapBefore(run, h, k) == IF k = 1 THEN h ELSE run.calls[k - 1].heap

ValidatorOrder == <<"manifest", "permissions", "security", "accessibility">>

\* runValidation with a manifest.json that was read: runAllValidations, then
\* the JSON report of consolidateResults or the report of
\* displayValidationResults
RunValidation ==
  /\ ncalls < MaxCalls
  /\ \E manifest \in Manifests, fix \in BOOLEAN, json \in BOOLEAN :
    \E run \in {runAllValidations(fs, manifest, ProjectDir, fix, heap)} :
    \E outcomes \in {[k \in 1..Len(run.calls) |->
                        Outcome(ValidatorOrder[k],
                                IF k <= 2 THEN manifest ELSE ProjectDir,
                                HeapBefore(run, heap, k), run.calls[k])]} :
       /\ heap' = run.heap
       /\ fs' = run.fs
       /\ returned' = returned \o outcomes
       /\ runs' = Append(runs,
            IF run.threw
              THEN [manifest |-> manifest, fix |-> fix, json |-> json,
                    threw |-> TRUE, outcomes |-> outcomes]
            ELSE [manifest |-> manifest, fix |-> fix, json |-> json,
                  threw |-> FALSE, outcomes |-> outcomes,
                  output |-> IF json THEN consolidateResults(run.results, run.heap)
                             ELSE displayValidationResults(run.results, run.heap)])
       /\ ncalls' = ncalls + 1
       /\ UNCHANGED <<walk, copy, project, publish>>

Next ==
  \/ CallValidateManifest
  \/ CallValidatePermissions
  \/ CallValidateSecurity
  \/ CallValidateAccessibility
  \/ RunValidation

Spec == Init /\ [][Next]_vars

(***************************************************************************)
(* The walkers: findFiles on a source directory and secureCopyTemplate     *)
(* from a template directory into a new, empty target directory.           *)
(***************************************************************************)
InitWalk ==
  /\ InitProcess
  /\ fs \in {ProjectTree("absent", src) @@ TemplateTree(tpl) @@ TargetTree(tgt) :
               src \in SourceChoices, tpl \in TemplateChoices,
               tgt \in TargetChoices}

\* findFiles(srcDir, ['.tsx', '.jsx']) as validateAccessibility calls it
FindFiles ==
  /\ ~walk.done
  /\ \E srcDir \in {Append(ProjectDir, "src")} :
     \E found \in {findFiles(fs, srcDir, <<".tsx", ".jsx">>, 1)} :
     /\ walk' = [done |-> TRUE, root |-> srcDir, files |-> found.files,
                 depth |-> found.depth, entered |-> found.entered]
     /\ UNCHANGED <<fs, heap, returned, runs, ncalls, copy, project, publish>>

\* fs.ensureDirSync(targetDir); await secureCopyTemplate(templateDir, targetDir)
CopyTemplate ==
  /\ ~copy.done
  /\ ~project.done
  /\ TargetDir \notin DOMAIN fs
  /\ pathExists(fs, TemplateDir)
  /\ \E made \in {ensureDir(fs, TargetDir)} :
     \E out \in {secureCopyTemplate(made, TemplateDir, TargetDir, 1)} :
     /\ fs' = out.fs
     /\ copy' = CopyRecord(TemplateDir, TargetDir, made, out)
     /\ UNCHANGED <<heap, returned, runs, ncalls, walk, project, publish>>

\* a run of `init [name]` with its options and the answers to its prompts
InitCommand ==
  /\ ~copy.done
  /\ ~project.done
  /\ \E args \in InitArgs, options \in InitOptions, answers \in InitAnswers :
     \E out \in {initCommand(fs, args, options, answers)} :
     /\ fs' = out.fs
     /\ project' = [done |-> TRUE, args |-> args, options |-> options,
                    answers |-> answers, before |-> fs, out |-> out]
     /\ copy' = IF out.ran THEN out.copy ELSE NoCopy
     /\ UNCHANGED <<heap, returned, runs, ncalls, walk, publish>>

NextWalk ==
  \/ FindFiles
  \/ CopyTemplate
  \/ InitCommand

SpecWalk == InitWalk /\ [][NextWalk]_vars

(***************************************************************************)
(* validateManifest on every manifest of ManifestInputs, in a process      *)
(* that is fresh or has validated the manifest of scenario A before.       *)
(***************************************************************************)
FreshHeap == [a \in {ErrorsArray, WarningsArray} |-> <<>>]

InitManifest ==
  /\ fs = ProjectTree("absent", "none")
  /\ heap \in {FreshHeap, validateManifest(ManifestA, FALSE, FreshHeap).heap}
  /\ returned = <<>>
  /\ runs = <<>>
  /\ ncalls = 0
  /\ walk = NoWalk
  /\ copy = NoCopy
  /\ project = NoProject
  /\ publish = NoPublish

ValidateManifestInput ==
  /\ returned = <<>>
  /\ \E manifest \in ManifestInputs, fix \in BOOLEAN :
    \E call \in {validateManifest(manifest, fix, heap)} :
      /\ heap' = call.heap
      /\ returned' = Append(returned, Outcome("manifest", manifest, heap, call))
      /\ ncalls' = ncalls + 1
      /\ UNCHANGED <<fs, runs, walk, copy, project, publish>>

NextManifest == ValidateManifestInput

SpecManifest == InitManifest /\ [][NextManifest]_vars

(***************************************************************************)
(* One step of validation, a validator call or a run of the validate       *)
(* command, in a project of every shape and in a process that is fresh or  *)
(* has validated the manifest of scenario A before.                        *)
(***************************************************************************)
InitOnce ==
  /\ fs \in {ProjectTree(pkg, src) :
               pkg \in PackageChoices, src \in {"none", "plain", "locked"}}
  /\ heap \in {FreshHeap, validateManifest(ManifestA, FALSE, FreshHeap).heap}
  /\ returned = <<>>
  /\ runs = <<>>
  /\ ncalls = 0
  /\ walk = NoWalk
  /\ copy = NoCopy
  /\ project = NoProject
  /\ publish = NoPublish

NextOnce ==
  \/ ncalls = 0 /\ CallValidateManifest
  \/ ncalls = 0 /\ CallValidatePermissions
  \/ ncalls = 0 /\ CallValidateSecurity
  \/ ncalls = 0 /\ CallValidateAccessibility
  \/ ncalls = 0 /\ RunValidation

SpecOnce == InitOnce /\ [][NextOnce]_vars

(***************************************************************************)
(* validatePermissions on every manifest of PermissionManifests, in a      *)
(* process that is fresh or has validated the manifest of scenario A       *)
(* before.                                                                 *)
(***************************************************************************)
ValidatePermissionsInput ==
  /\ returned = <<>>
  /\ \E manifest \in PermissionManifests, fix \in BOOLEAN :
    \E call \in {validatePermissions(manifest, fix, heap)} :
      /\ heap' = call.heap
      /\ returned' = Append(returned, Outcome("permissions", manifest, heap, call))
      /\ ncalls' = ncalls + 1
      /\ UNCHANGED <<fs, runs, walk, copy, project, publish>>

NextPermissions == ValidatePermissionsInput

SpecPermissions == InitManifest /\ [][NextPermissions]_vars

(***************************************************************************)
(* The publish command in a fresh process, in a project of every shape.    *)
(***************************************************************************)
InitPublish ==
  /\ fs \in {PublishTree(man, pkg, src, dist) :
               man \in ManifestFileChoices,
               pkg \in {"absent", "locked", "{scripts:{build}}",
                        "{scripts:{build,deploy:sudo}}"},
               src \in {"none", "plain"},
               dist \in DistChoices}
  /\ heap = FreshHeap
  /\ returned = <<>>
  /\ runs = <<>>
  /\ ncalls = 0
  /\ walk = NoWalk
  /\ copy = NoCopy
  /\ project = NoProject
  /\ publish = NoPublish

\* a run of `publish` with its options and the answers to its prompts
PublishCommand ==
  /\ ~publish.done
  /\ \E options \in PublishOptions, answers \in PublishAnswers :
     \E out \in {publishCommand(fs, options, answers, heap)} :
     /\ heap' = out.heap
     /\ publish' = [done |-> TRUE, options |-> options, answers |-> answers,
                    out |-> out]
     /\ UNCHANGED <<fs, returned, runs, ncalls, walk, copy, project>>

NextPublish == PublishCommand

SpecPublish == InitPublish /\ [][NextPublish]_vars

(***************************************************************************)
(* Properties of the validation process (specification Spec).              *)
(***************************************************************************)
\* the validator calls that returned an object
ReturnedResults == {i \in 1..Len(returned) : ~returned[i].threw}

\* C1: every result object that a validator returned lists, now and at
\* every later moment, exactly the errors and the warnings that the call
\* which returned it produced for its own input.
FreshResultPerCall ==
  \A i \in ReturnedResults :
    /\ heap[returned[i].result.errors] = returned[i].ownErrors
    /\ heap[returned[i].result.warnings] = returned[i].ownWarnings

\* the runs of the validate command that produced a report
CompletedRuns == {k \in 1..Len(runs) : ~runs[k].threw}

\* C2: two runs of the aggregate in one process with the same manifest and
\* the same report format, over the unchanged project directory, produce
\* identical reports: same valid flag, same errors, same warnings, in the
\* same order.
AggregateRunIdempotent ==
  \A j \in CompletedRuns, k \in CompletedRuns :
    (runs[j].manifest = runs[k].manifest /\ runs[j].json = runs[k].json)
      => runs[j].output = runs[k].output

\* what a report in the given format shows for the diagnostics of one
\* validator
Shown(run, items, cat) == IF run.json THEN MapCategory(items, cat) ELSE items

\* C3: the errors of a report are the manifest validator's own errors, then
\* the permission validator's, then the security scanner's, then the
\* accessibility scanner's, each in emission order and nothing else, and
\* the same holds for the warnings.
ReportIsOrderedConcatenation ==
  \A k \in CompletedRuns :
    /\ runs[k].output.errors =
         Shown(runs[k], runs[k].outcomes[1].ownErrors, "manifest")
         \o Shown(runs[k], runs[k].outcomes[2].ownErrors, "permissions")
         \o Shown(runs[k], runs[k].outcomes[3].ownErrors, "security")
         \o Shown(runs[k], runs[k].outcomes[4].ownErrors, "accessibility")
    /\ runs[k].output.warnings =
         Shown(runs[k], runs[k].outcomes[1].ownWarnings, "manifest")
         \o Shown(runs[k], runs[k].outcomes[2].ownWarnings, "permissions")
         \o Shown(runs[k], runs[k].outcomes[3].ownWarnings, "security")
         \o Shown(runs[k], runs[k].outcomes[4].ownWarnings, "accessibility")

\* C4: a report holds every finding once: the number of its errors is the
\* sum of the numbers of errors that the four validators detected, and
\* likewise for the warnings.
ReportCountsEachFindingOnce ==
  \A k \in CompletedRuns :
    /\ Len(runs[k].output.errors) =
         Len(runs[k].outcomes[1].ownErrors) + Len(runs[k].outcomes[2].ownErrors)
         + Len(runs[k].outcomes[3].ownErrors) + Len(runs[k].outcomes[4].ownErrors)
    /\ Len(runs[k].output.warnings) =
         Len(runs[k].outcomes[1].ownWarnings) + Len(runs[k].outcomes[2].ownWarnings)
         + Len(runs[k].outcomes[3].ownWarnings) + Len(runs[k].outcomes[4].ownWarnings)

\* C5: at every moment after a validator returned a result, the valid flag
\* of that result is true exactly when the errors list of that result is
\* empty.
ValidIffNoErrors ==
  \A i \in ReturnedResults :
    returned[i].result.valid <=> (Len(heap[returned[i].result.errors]) = 0)

\* C6: no call of a validator throws or rejects, whatever the manifest and
\* whatever the state of the project directory.
ValidatorsNeverThrow ==
  \A i \in 1..Len(returned) : ~returned[i].threw

\* C7: every aggregate run calls all four validators and returns a combined
\* report, also when one validator meets a file it cannot read or parse.
RunSurvivesValidatorFault ==
  \A k \in 1..Len(runs) :
    /\ Len(runs[k].outcomes) = 4
    /\ ~runs[k].threw

(***************************************************************************)
(* Properties of the walkers (specification SpecWalk).                     *)
(***************************************************************************)
\* the real location that a path denotes
RealPath(p) == Resolve(fs, p).path

\* C8: every file that the scan yields and every directory that it descends
\* into lies, once its path is resolved, inside the directory the scan
\* started from, and every file whose bytes the template copy reads lies
\* inside the template directory.
WalkStaysInsideRoot ==
  /\ walk.done =>
       /\ \A i \in 1..Len(walk.files) :
            IsPrefix(RealPath(walk.root), RealPath(walk.files[i]))
       /\ \A d \in walk.entered : IsPrefix(RealPath(walk.root), RealPath(d))
  /\ copy.done =>
       \A p \in copy.read : IsPrefix(RealPath(copy.root), p)

\* the path has a component below root that is a symbolic link
ThroughSymlink(root, p) ==
  \E n \in (Len(root) + 1)..Len(p) : lstat(fs, SubSeq(p, 1, n)).kind = "link"

\* C9: no entry that the scan yields or the template copy copies is a
\* symbolic link or lies beneath one.
SymlinksNeverFollowed ==
  /\ walk.done =>
       \A i \in 1..Len(walk.files) : ~ThroughSymlink(walk.root, walk.files[i])
  /\ copy.done =>
       \A i \in 1..Len(copy.copied) : ~ThroughSymlink(copy.root, copy.copied[i])

\* the nesting of real directories at and below the directory d
RECURSIVE RealDepth(_, _)
RealDepth(f, d) ==
  LET subdirs == {p \in DOMAIN f : /\ Len(p) = Len(d) + 1
                                   /\ IsPrefix(d, p)
                                   /\ f[p].kind = "dir"}
      deepest == CHOOSE p \in subdirs :
                   \A q \in subdirs : RealDepth(f, q) <= RealDepth(f, p)
  IN IF subdirs = {} THEN 1 ELSE 1 + RealDepth(f, deepest)

\* C10: a walk that has ended never nested its calls deeper than the real
\* directories below its root are nested.
DepthWithinRealNesting ==
  /\ walk.done => walk.depth <= RealDepth(fs, walk.root)
  /\ copy.done => copy.depth <= RealDepth(fs, copy.root)

\* the names of the path p below the directory root
NamesBelow(root, p) == {p[n] : n \in (Len(root) + 1)..Len(p)}

\* the built-in ignore set: version-control metadata, dependency caches,
\* environment files, secrets.json and credentials.json
IgnoredNames ==
  {".git", ".DS_Store", "node_modules", ".env", ".env.local", ".env.development",
   ".env.test", ".env.production", ".env.example", "secrets.json",
   "credentials.json"}

\* C11: once a template copy has ended, no entry that it created in the
\* target directory, at any depth, has a name of the built-in ignore set.
TemplateCopyOmitsIgnored ==
  copy.done =>
    \A p \in copy.created : NamesBelow(copy.dest, p) \cap IgnoredNames = {}

\* a copy of a template that holds .env and secrets.json at top level and
\* credentials.json in a subdirectory has ended and created other entries
TemplateCopyOmitsIgnoredWitness ==
  /\ copy.done
  /\ ~copy.threw
  /\ {Append(copy.root, ".env"), Append(copy.root, "secrets.json"),
      copy.root \o <<"lib", "credentials.json">>} \subseteq DOMAIN fs
  /\ Append(copy.dest, "manifest.json") \in copy.created
  /\ Append(copy.dest, "lib") \in copy.created

\* C12: no file that the scan yields and no entry that the template copy
\* creates has, below the root of the walk, a name that starts with a dot.
DotEntriesRejected ==
  /\ walk.done =>
       \A i \in 1..Len(walk.files) :
         \A n \in NamesBelow(walk.root, walk.files[i]) : ~StartsWithDot(n)
  /\ copy.done =>
       \A p \in copy.created :
         \A n \in NamesBelow(copy.dest, p) : ~StartsWithDot(n)

\* C13: no file that the scan yields and no directory that it descends into
\* is, or lies beneath, an entry whose name is in the built-in ignore set.
ScanSkipsIgnoredNames ==
  walk.done =>
    /\ \A i \in 1..Len(walk.files) :
         NamesBelow(walk.root, walk.files[i]) \cap IgnoredNames = {}
    /\ \A d \in walk.entered : NamesBelow(walk.root, d) \cap IgnoredNames = {}

\* the regular, readable files of the template that lie in real, readable
\* directories and that no name of the ignore set excludes
CopyableFiles(root) ==
  {p \in DOMAIN fs :
     /\ IsPrefix(root, p)
     /\ Len(p) > Len(root)
     /\ fs[p].kind = "file"
     /\ fs[p].readable
     /\ NamesBelow(root, p) \cap IgnoredNames = {}
     /\ \A n \in Len(root)..(Len(p) - 1) :
          /\ fs[SubSeq(p, 1, n)].kind = "dir"
          /\ fs[SubSeq(p, 1, n)].readable}

\* C14: when a template copy has ended, every file of the template that can
\* be copied is present in the target, also when another entry of the
\* template could not be copied.
CopySurvivesEntryFailure ==
  copy.done =>
    \A p \in CopyableFiles(copy.root) :
      (copy.dest \o Relative(copy.root, p)) \in copy.created

\* C16: a run of the init command whose target directory exists leaves the
\* file system as it was unless the overwrite prompt was shown and
\* confirmed; when it was confirmed the old directory is gone, and what is
\* in the target afterwards from before the run is what the template copy
\* created, all of which is still there.
OverwriteOnlyWhenConfirmed ==
  (project.done /\ project.out.ran /\ project.out.existed) =>
    IF ~project.options.yes /\ project.answers.overwrite
      THEN /\ project.out.removed
           /\ \A p \in DOMAIN project.before :
                (IsPrefix(project.out.target, p) /\ p # project.out.target
                 /\ p \in DOMAIN project.out.fs)
                  => (project.out.copy.done /\ p \in project.out.copy.created)
           /\ project.out.copy.done =>
                project.out.copy.created \subseteq DOMAIN project.out.fs
    ELSE /\ project.out.fs = project.before
         /\ ~project.out.removed
         /\ ~project.out.copy.done

\* the overwrite of an existing project was confirmed, and the template was
\* copied into the place of the old directory
OverwriteOnlyWhenConfirmedWitness ==
  /\ project.done
  /\ project.out.ran
  /\ project.out.existed
  /\ ~project.options.yes
  /\ project.answers.overwrite
  /\ project.out.removed
  /\ project.out.finished
  /\ Append(project.out.target, "old.txt") \in DOMAIN project.before
  /\ Append(project.out.target, "old.txt") \notin DOMAIN fs
  /\ Append(project.out.target, "manifest.json") \in DOMAIN fs

(***************************************************************************)
(* Properties of the diagnostics.                                          *)
(***************************************************************************)
\* the calls of validateManifest that returned
ManifestCalls == {i \in ReturnedResults : returned[i].validator = "manifest"}

\* how many diagnostics of the list carry the code
CountCode(items, code) == Len(SelectSeq(items, LAMBDA d : d.code = code))

\* the source files and directories below root that cannot be read
Unreadable(root) ==
  {p \in DOMAIN fs :
     /\ IsPrefix(root, p)
     /\ ~fs[p].readable
     /\ \/ fs[p].kind = "dir"
        \/ /\ fs[p].kind = "file"
           /\ EndsWith(p[Len(p)], ".tsx") \/ EndsWith(p[Len(p)], ".jsx")}

\* C15: the result of an accessibility scan holds, for every file or
\* directory under the source directory that could not be read, a
\* diagnostic whose path identifies it.
UnreadableEntriesReported ==
  \A i \in ReturnedResults :
    returned[i].validator = "accessibility" =>
      \A p \in Unreadable(Append(returned[i].input, "src")) :
        \E k \in 1..Len(returned[i].errors \o returned[i].warnings) :
          LET diagnostic == (returned[i].errors \o returned[i].warnings)[k] IN
            /\ Has(diagnostic, "path")
            /\ diagnostic.path = Relative(returned[i].input, p)

\* C18: the result that validateManifest returns for a manifest without
\* type holds exactly one manifest-missing-type error and no
\* manifest-invalid-type error, and no result holds both codes.
MissingTypeExclusive ==
  \A i \in ManifestCalls :
    /\ ~Has(returned[i].input, "type") =>
         /\ CountCode(returned[i].errors, "manifest-missing-type") = 1
         /\ CountCode(returned[i].errors, "manifest-invalid-type") = 0
    /\ ~ /\ CountCode(returned[i].errors, "manifest-missing-type") > 0
         /\ CountCode(returned[i].errors, "manifest-invalid-type") > 0

(***************************************************************************)
(* Properties of validateManifest (specification SpecManifest).            *)
(***************************************************************************)
\* ids that are not of the reverse-domain form: a blank inside, no dot, a
\* digit in front, an empty segment
NonReverseDomainIds == {BadId, NoDotId, DigitFirstId, EmptySegmentId}

\* C17 as stated: for every manifest that has an id which is not of the
\* reverse-domain form, the empty string included, validateManifest emits
\* exactly one manifest-invalid-id error and no manifest-missing-id error.
InvalidIdEmitsInvalidId ==
  \A i \in ManifestCalls :
    (Has(returned[i].input, "id")
     /\ returned[i].input.id \in NonReverseDomainIds \cup {<<>>}) =>
       /\ CountCode(returned[i].ownErrors, "manifest-invalid-id") = 1
       /\ CountCode(returned[i].ownErrors, "manifest-missing-id") = 0

\* C17 amended: for every manifest whose id is a non-empty string that is
\* not of the reverse-domain form, validateManifest emits exactly one
\* manifest-invalid-id error and no manifest-missing-id error.
NonEmptyInvalidIdEmitsInvalidId ==
  \A i \in ManifestCalls :
    (Has(returned[i].input, "id")
     /\ returned[i].input.id \in NonReverseDomainIds) =>
       /\ CountCode(returned[i].ownErrors, "manifest-invalid-id") = 1
       /\ CountCode(returned[i].ownErrors, "manifest-missing-id") = 0

\* validateManifest returned for a manifest with the id "com", in a process
\* that had validated another manifest before
NonEmptyInvalidIdWitness ==
  \E i \in ManifestCalls :
    /\ Has(returned[i].input, "id")
    /\ returned[i].input.id = NoDotId
    /\ CountCode(returned[i].ownErrors, "manifest-invalid-id") = 1
    /\ Len(returned[i].errors) > Len(returned[i].ownErrors)

\* the codes of the diagnostics of a list, in order
Codes(items) == [k \in 1..Len(items) |-> items[k].code]

\* the manifest reduced to one field
OnlyField(manifest, field) ==
  [g \in DOMAIN manifest \cap {field} |-> manifest[g]]

\* the error codes that belong to the check of a field
FieldCodes(field) ==
  CASE field = "id" -> {"manifest-missing-id", "manifest-invalid-id"}
    [] field = "name" -> {"manifest-missing-name"}
    [] field = "version" -> {"manifest-missing-version", "manifest-invalid-version"}
    [] field = "type" -> {"manifest-missing-type", "manifest-invalid-type"}

\* what the check of one field yields on its own: the codes of that field
\* among the errors for the manifest reduced to the field
FieldErrors(manifest, field) ==
  SelectSeq(Codes(validateRequiredFields(OnlyField(manifest, field),
                                         Spread(defaultResult),
                                         FreshHeap)[ErrorsArray]),
            LAMBDA c : c \in FieldCodes(field))

\* C19: the errors that validateManifest emits for a manifest are what the
\* checks of id, name, version and type yield each on its own, in that
\* order and at most one per field; for the manifest of scenario A they are
\* manifest-invalid-id, manifest-missing-name, manifest-invalid-version
\* and manifest-invalid-type.
FieldChecksIndependent ==
  \A i \in ManifestCalls :
    /\ Codes(returned[i].ownErrors) =
         FieldErrors(returned[i].input, "id")
         \o FieldErrors(returned[i].input, "name")
         \o FieldErrors(returned[i].input, "version")
         \o FieldErrors(returned[i].input, "type")
    /\ \A field \in {"id", "name", "version", "type"} :
         Len(FieldErrors(returned[i].input, field)) <= 1
    /\ returned[i].input = ManifestA =>
         Codes(returned[i].ownErrors) =
           <<"manifest-invalid-id", "manifest-missing-name",
             "manifest-invalid-version", "manifest-invalid-type">>

\* validateManifest returned for the manifest of scenario A
FieldChecksIndependentWitness ==
  \E i \in ManifestCalls :
    /\ returned[i].input = ManifestA
    /\ Len(returned[i].ownErrors) = 4

\* C20: every id that has a segment of more than 64 characters or more
\* than 10 segments makes validateManifest emit manifest-invalid-id.
IdLengthBounded ==
  \A i \in ManifestCalls :
    (Truthy(returned[i].input, "id")
     /\ \/ Len(Split(returned[i].input.id, ".")) > 10
        \/ \E k \in 1..Len(Split(returned[i].input.id, ".")) :
             Len(Split(returned[i].input.id, ".")[k]) > 64) =>
       CountCode(returned[i].ownErrors, "manifest-invalid-id") >= 1

(***************************************************************************)
(* Properties of validatePermissions (specification SpecPermissions).      *)
(***************************************************************************)
PermissionCalls ==
  {i \in 1..Len(returned) :
     returned[i].validator = "permissions" /\ ~returned[i].threw}

\* the indices, from 0, of the broad grants of a manifest: type "memory",
\* access ["write"], no scope
BroadGrants(manifest) ==
  IF ~Has(manifest, "permissions") THEN {}
  ELSE {k \in 0..(Len(manifest.permissions) - 1) :
          manifest.permissions[k + 1] = BroadGrant}

\* the diagnostics of a list that concern the permission at index k
About(items, k) ==
  SelectSeq(items, LAMBDA d : Has(d, "path") /\ d.path[2] = ToString(k))

\* what the claim says of the call o for the broad grant at index k
FlaggedNotRejected(o, k) ==
  /\ Len(SelectSeq(o.ownWarnings,
                   LAMBDA d : /\ d.code = "permission-too-broad"
                              /\ Has(d, "path")
                              /\ d.path = <<"permissions", ToString(k), "scope">>)) = 1
  /\ CountCode(About(o.ownWarnings, k), "permission-too-broad") = 1
  /\ About(o.ownErrors, k) = <<>>
  /\ (o.errors = <<>> => o.result.valid)

\* C21 as stated: for every permission with type "memory", access ["write"]
\* and no scope, of whatever manifest, validatePermissions emits exactly one
\* permission-too-broad warning for it and no error, and the grant does not
\* make the result invalid.
BroadGrantFlagged ==
  \A i \in PermissionCalls :
    \A k \in BroadGrants(returned[i].input) : FlaggedNotRejected(returned[i], k)

\* C21 amended: in a manifest of type app or plugin, for every permission
\* with type "memory", access ["write"] and no scope, validatePermissions
\* emits exactly one permission-too-broad warning for it and no error, and
\* the grant does not make the result invalid.
BroadGrantFlaggedInAppOrPlugin ==
  \A i \in PermissionCalls :
    (Has(returned[i].input, "type") /\ returned[i].input.type \in {"app", "plugin"})
      => \A k \in BroadGrants(returned[i].input) :
           FlaggedNotRejected(returned[i], k)

\* a plugin whose second permission is the broad grant was validated in a
\* fresh process: one warning, the result is valid
BroadGrantFlaggedWitness ==
  \E i \in PermissionCalls :
    /\ Has(returned[i].input, "type") /\ returned[i].input.type = "plugin"
    /\ BroadGrants(returned[i].input) = {1}
    /\ returned[i].input.permissions[1].type = "user"
    /\ Len(returned[i].ownWarnings) = 1
    /\ returned[i].errors = <<>>
    /\ returned[i].result.valid


(***************************************************************************)
(* Properties of validateSecurity and of the effects of validation         *)
(* (specification SpecOnce).                                               *)
(***************************************************************************)
SecurityCalls ==
  {i \in 1..Len(returned) :
     returned[i].validator = "security" /\ ~returned[i].threw}

\* the superuser-invocation token: "sudo" and a blank
SudoToken == <<"s","u","d","o"," ">>

\* the entries of the script map of the package.json of the project, none
\* when the file or the map is absent
ProjectScripts ==
  LET p == Append(ProjectDir, "package.json") IN
    IF p \notin DOMAIN fs THEN <<>>
    ELSE IF fs[p].content \notin JsonTexts \ {"{"} THEN <<>>
    ELSE IF ~Has(JsonParse(fs[p].content), "scripts") THEN <<>>
    ELSE JsonParse(fs[p].content).scripts

SudoErrors(o) ==
  SelectSeq(o.ownErrors, LAMBDA d : d.code = "security-sudo-in-script")

ValidationLeavesInputs ==
  [][/\ fs' = fs
     /\ \A i \in 1..Len(returned') :
          Has(returned'[i], "manifest") => returned'[i].manifest = returned'[i].input]_vars

\* a run with fix of a manifest without description ended, in a project
\* with a package.json and sources
ValidationLeavesInputsWitness ==
  /\ \E k \in 1..Len(runs) :
       /\ runs[k].fix
       /\ ~runs[k].threw
       /\ ~Has(runs[k].manifest, "description")
       /\ runs[k].outcomes[1].manifest = runs[k].manifest
       /\ runs[k].outcomes[2].manifest = runs[k].manifest
  /\ Append(ProjectDir, "package.json") \in DOMAIN fs
  /\ <<"proj", "src", "A.tsx">> \in DOMAIN fs

(***************************************************************************)
(* Properties of the template copy and of the init command                 *)
(* (specification SpecWalk).                                               *)
(***************************************************************************)
\* the entries of the template that the copy is to reproduce: the entries
\* below its root with no name of the ignore set on the way
TemplateEntries ==
  {p \in DOMAIN fs :
     /\ IsPrefix(copy.root, p)
     /\ p # copy.root
     /\ NamesBelow(copy.root, p) \cap IgnoredNames = {}}

\* the place in the target of the template entry p, and back
InTarget(p) == copy.dest \o Relative(copy.root, p)
InTemplate(q) == copy.root \o Relative(copy.dest, q)

PermissionPath(path, manifest) ==
  /\ Len(path) = 3
  /\ path[1] = "permissions"
  /\ Has(manifest, "permissions")
  /\ \E k \in 0..(Len(manifest.permissions) - 1) : path[2] = ToString(k)
  /\ path[3] \in {"type", "access", "scope", "purpose"}

\* C25: every error and every warning of the result that validatePermissions
\* returns carries a path of the form permissions[i].<field>, i being the
\* index of a permission of the manifest.
PermissionDiagnosticsCarryPath ==
  \A i \in PermissionCalls :
    \A d \in {(returned[i].errors \o returned[i].warnings)[j] :
                j \in 1..(Len(returned[i].errors) + Len(returned[i].warnings))} :
      /\ Has(d, "path")
      /\ PermissionPath(d.path, returned[i].input)

(***************************************************************************)
(* Properties of the publish command (specification SpecPublish).          *)
(***************************************************************************)
\* the place of a function in the sequence of the functions entered, 0 when
\* it was not entered
Entered(steps, name) ==
  IF \E n \in 1..Len(steps) : steps[n] = name
    THEN CHOOSE n \in 1..Len(steps) : steps[n] = name
  ELSE 0

ExistingTargetSurvivesMissingTemplate ==
  (/\ project.done
   /\ project.out.ran
   /\ project.out.existed
   /\ ~pathExists(project.before, TemplateDir)) =>
    \A p \in DOMAIN project.before :
      IsPrefix(project.out.target, p) => (p \in DOMAIN fs /\ fs[p] = project.before[p])

\* the manifest.json of the project that the init command created
CreatedManifest == fs[Append(project.out.target, "manifest.json")].json

\* C28: the id that createProject writes into the manifest of a project it
\* created is accepted by the id rule of validateManifest: validating the
\* new manifest reports neither manifest-invalid-id nor manifest-missing-id.
CreatedIdIsValid ==
  (/\ project.done
   /\ project.out.ran
   /\ project.out.finished
   /\ Append(project.out.target, "manifest.json") \in DOMAIN fs) =>
    \E call \in {validateManifest(CreatedManifest, FALSE, FreshHeap)} :
      /\ CountCode(call.heap[call.result.errors], "manifest-invalid-id") = 0
      /\ CountCode(call.heap[call.result.errors], "manifest-missing-id") = 0

(***************************************************************************)
(* Properties of the report of the validate command (specification         *)
(* SpecOnce) and of the patterns (specification SpecManifest).             *)
(***************************************************************************)
\* the codes of each validator
CategoryCodes ==
  [manifest |-> {"manifest-missing-id", "manifest-invalid-id",
                 "manifest-missing-name", "manifest-missing-version",
                 "manifest-invalid-version", "manifest-missing-type",
                 "manifest-invalid-type", "manifest-missing-description",
                 "manifest-missing-author"},
   permissions |-> {"permissions-empty", "permission-missing-type",
                    "permission-missing-access", "permission-too-broad"},
   security |-> {"security-sudo-in-script"},
   accessibility |-> {"a11y-missing-alt", "a11y-check-failed"}]

\* the place of a validator in the fixed order
OrderOf(cat) == CHOOSE k \in 1..Len(ValidatorOrder) : ValidatorOrder[k] = cat

\* the diagnostics that the validator of category cat itself emitted in a run
EmittedBy(run, cat) ==
  {(run.outcomes[OrderOf(cat)].ownErrors \o run.outcomes[OrderOf(cat)].ownWarnings)[j] :
     j \in 1..(Len(run.outcomes[OrderOf(cat)].ownErrors)
               + Len(run.outcomes[OrderOf(cat)].ownWarnings))}

\* C29: in the consolidated result every diagnostic carries the category of
\* the validator whose own checks emitted it, so its code is in the
\* namespace of that category.
DiagnosticsAttributedToProducer ==
  \A k \in 1..Len(runs) :
    (~runs[k].threw /\ runs[k].json) =>
      \A d \in {(runs[k].output.errors \o runs[k].output.warnings)[j] :
                  j \in 1..(Len(runs[k].output.errors)
                            + Len(runs[k].output.warnings))} :
        /\ d.code \in CategoryCodes[d.category]
        /\ \E e \in EmittedBy(runs[k], d.category) : WithCategory(e, d.category) = d

\* the lengths of the runs of digits of a version
DigitRuns(version) == {Len(Split(version, ".")[n]) : n \in 1..Len(Split(version, "."))}

\* C30: the patterns repeat within stated maximum counts, so a string that
\* the version pattern accepts has no run of digits longer than the largest
\* count a pattern states.
PatternRepetitionBounded ==
  \A i \in ManifestCalls :
    (/\ Truthy(returned[i].input, "version")
     /\ CountCode(returned[i].ownErrors, "manifest-invalid-version") = 0) =>
      \A n \in DigitRuns(returned[i].input.version) : n <= RepetitionCap

====
